---- MODULE Spec2Model ----
(***************************************************************************)
(* The document assistant: the chat pipeline of ChatService                *)
(* (src/services/chat_service.py) with its in-memory session store, the   *)
(* per-conversation JSON records on disk, and the streaming generator     *)
(* get_streaming_response, run as concurrently scheduled asyncio tasks;   *)
(* and the ingest of uploads by DocumentProcessor                         *)
(* (src/services/document_processor.py) with its catalog and the          *)
(* collection of chunks the chat retrieves from.                          *)
(*                                                                         *)
(* One step of the chat model is the code a task runs between two         *)
(* suspension points (a yield or an await): asyncio runs the tasks of one *)
(* process on one thread, so such a segment is atomic.                    *)
(*                                                                         *)
(* Strings are sequences of tokens, Python objects are records with a     *)
(* `cls` field, Python dicts are records without one.                     *)
(*                                                                         *)
(* Specifications: Spec (two concurrent chat calls, cancellation and      *)
(* restart), SpecSeq (one conversation, call after call), FairServed      *)
(* (calls read to their end, with fairness), SpecIngest (two uploads).    *)
(***************************************************************************)
EXTENDS Integers, Sequences, FiniteSets, TLC

VARIABLES
    conversations,  \* ChatService.conversations: conversation id -> session dict
    disk,           \* conversations_dir: file name -> file content
    index,          \* the Chroma collection under db_directory (sequence of docs)
    calls,          \* the get_streaming_response generators, one per task slot
    completed,      \* conversation id -> chat calls completed in this process
    nextUuid,       \* number of uuid4() values drawn so far
    ioFailed,       \* whether some durable write has raised in this run
    restarts,       \* process restarts so far
    metadata,       \* DocumentProcessor.metadata: document id -> DocumentInfo dict
    metadataFile,   \* the content of upload_dir/metadata.json
    uploads,        \* the other files of upload_dir
    ingests,        \* the upload requests, one per task slot
    exportDir,      \* the files of export_dir
    requests        \* the export and download requests, one per slot

vars == <<conversations, disk, index, calls, completed, nextUuid, ioFailed, restarts,
          metadata, metadataFile, uploads, ingests, exportDir, requests>>

\* the state of the DocumentProcessor
docVars == <<metadata, metadataFile, uploads, ingests>>

\* the state of the ExportService and of its two endpoints
exportVars == <<exportDir, requests>>

----------------------------------------------------------------------------
(* Bounds of the model *)

MaxChunks == 2      \* increments the generation capability yields over a run
MaxRestarts == 1    \* process restarts over a run
MaxTurns == 3       \* completed turns after which a client sends one last request

(* Program constants *)

SearchK == 3          \* similarity_search(message, k=3)
SnippetLen == 200     \* doc.page_content[:200]
HistoryWindow == 4    \* history[-4:]

\* the chat requests of a run (each runs get_streaming_response once)
Slots == {1, 2}

----------------------------------------------------------------------------
(* Strings *)

Min(a, b) == IF a < b THEN a ELSE b
Max(a, b) == IF a > b THEN a ELSE b

\* s[:n]
Take(s, n) == SubSeq(s, 1, Min(n, Len(s)))

\* the whole sequence, whatever n
WholeSeq(s, n) == s

\* s[-n:]
LastN(s, n) == SubSeq(s, Max(1, Len(s) - n + 1), Len(s))

IsPrefix(s, t) == Len(s) <= Len(t) /\ SubSeq(t, 1, Len(s)) = s

RECURSIVE Join(_, _)
\* sep.join(parts)
Join(sep, parts) ==
    IF parts = <<>> THEN <<>>
    ELSE IF Len(parts) = 1 THEN parts[1]
    ELSE parts[1] \o sep \o Join(sep, Tail(parts))

RECURSIVE Concat(_)
Concat(parts) == IF parts = <<>> THEN <<>> ELSE parts[1] \o Concat(Tail(parts))

\* None, and Python truthiness of an Optional[str]
None == "<None>"
Truthy(s) == s # None /\ s # ""

THINKING_RESPONSE == <<"<think>Analyzing the context and formulating a response...</think>\n">>
ERROR_RESPONSE == <<"I apologize, but I encountered an error while processing your request.">>
SYSTEM_MESSAGE == [cls |-> "SystemMessage", content |-> <<"You are a helpful AI assistant ...">>]

\* str(uuid4()): the n-th value drawn; distinct draws give distinct values
UuidPool == <<"u1", "u2", "u3", "u4", "u5", "u6", "u7", "u8", "u9", "u10", "u11", "u12">>
uuid4(n) == UuidPool[n]

----------------------------------------------------------------------------
(* Inputs *)

Messages == {"q1", "q2"}

\* conversation ids a client may invent (the empty string included)
ClientIds == {"", "c1"}

\* the increments ChatOllama.astream yields: chunks with a content (possibly
\* empty) and an object with no content attribute
Chunks == { [content |-> <<"a">>], [content |-> <<>>], [type |-> "other"] }

LongText == [i \in 1..(SnippetLen + 1) |-> "x"]

\* the formats an export may be asked in
Formats == { <<"txt">>, <<"TXT">>, <<"pdf">>, <<"docx">> }

\* datetime.now().strftime("%Y%m%d_%H%M%S"): the clock, to the second
Timestamps == {"t1", "t2"}

\* file names: a stem and an extension, or a stem alone
Filenames == { <<"doc", ".pdf">>, <<"R", ".PDF">>, <<"t", ".csv">>, <<"n", ".txt">>, <<"noext">> }

\* what the splitter makes of an extracted text, and the page counts the
\* extractors report
ChunkChoices == { << <<"p", "1">> >>, << <<"p", "1">>, <<"p", "2">> >> }
PageChoices == {1, 3}

----------------------------------------------------------------------------
(* pydantic models (src/models/schemas.py) *)

Source(document_name, page_number, content_snippet) ==
    [cls |-> "Source", document_name |-> document_name, page_number |-> page_number,
     content_snippet |-> content_snippet]

ChatResponse(response, sources, conversation_id, user_message) ==
    [cls |-> "ChatResponse", response |-> response, sources |-> sources,
     conversation_id |-> conversation_id, user_message |-> user_message]

HumanMessage(content) == [cls |-> "HumanMessage", content |-> content]
AIMessage(content) == [cls |-> "AIMessage", content |-> content]

IsDict(v) == "cls" \notin DOMAIN v

\* the plain dict of an object's fields
Fields(obj) == [k \in DOMAIN obj \ {"cls"} |-> obj[k]]

\* BaseModel.model_dump(): nested models are dumped too
model_dump(obj) ==
    IF obj.cls = "ChatResponse"
    THEN [Fields(obj) EXCEPT !.sources = [i \in DOMAIN obj.sources |-> Fields(obj.sources[i])]]
    ELSE Fields(obj)

WithCls(d, cls) == [k \in DOMAIN d \cup {"cls"} |-> IF k = "cls" THEN cls ELSE d[k]]

\* ChatResponse(**msg): the sources dicts are validated into Source objects
ChatResponseFromDict(msg) ==
    WithCls([msg EXCEPT !.sources = [i \in DOMAIN msg.sources |-> WithCls(msg.sources[i], "Source")]],
            "ChatResponse")

----------------------------------------------------------------------------
(* Persistence: one JSON file per conversation id *)

CHROMA == "Chroma"   \* a handle on the shared collection

FileName(conversation_id) == <<conversation_id, ".json">>
EndsWithJson(filename) == filename[Len(filename)] = ".json"
\* filename[:-5]
StripJson(filename) == filename[1]

Put(f, k, v) == [x \in DOMAIN f \cup {k} |-> IF x = k THEN v ELSE f[x]]

\* what the json encoder can encode in a list of this program's values
JsonEncodable(list) == \A i \in DOMAIN list : IsDict(list[i])

\* json.dump(conv_data, f, indent=2): the encoder writes the keys in order
\* (id, history, messages) as it goes and raises TypeError at the first value
\* it cannot encode; what it wrote before stays in the file.
\* `raised` tells whether it raised, `text` is the file content.
json_dump(conv_data) ==
    IF ~JsonEncodable(conv_data.history)
    THEN [raised |-> TRUE, text |-> [complete |-> FALSE, id |-> conv_data.id]]
    ELSE IF ~JsonEncodable(conv_data.messages)
    THEN [raised |-> TRUE,
          text |-> [complete |-> FALSE, id |-> conv_data.id, history |-> conv_data.history]]
    ELSE [raised |-> FALSE,
          text |-> [complete |-> TRUE, id |-> conv_data.id, history |-> conv_data.history,
                    messages |-> conv_data.messages]]

\* json.load(f) raises on a truncated document
JsonLoadRaises(text) == ~text.complete
json_load(text) == [k \in DOMAIN text \ {"complete"} |-> text[k]]

\* lines 65-73: the shallow copy without the vectorstore, messages dumped to dicts
SaveView(session) ==
    LET conv_data == [k \in DOMAIN session \ {"vectorstore"} |-> session[k]]
    IN  IF "messages" \in DOMAIN conv_data
        THEN [conv_data EXCEPT !.messages =
                 [i \in DOMAIN conv_data.messages |->
                     IF IsDict(conv_data.messages[i]) THEN conv_data.messages[i]
                     ELSE model_dump(conv_data.messages[i])]]
        ELSE conv_data

\* a save that works on the session itself instead of a copy of it
SessionAfterSaveInPlace(session) == SaveView(session)

\* _save_conversation: the session in the store afterwards. Line 65 takes a
\* copy of the dict; the pop of line 67 and the assignment of line 70 change
\* keys of the copy, and the list of line 70 is a new one, so the dict in
\* the store and the lists it holds are what they were.
SessionAfterSave(session) == session

\* _save_conversation: the files afterwards. `io` = "fail" when open() raises
\* (the file is then left as it was); every exception is caught and printed.
_save_conversation(convs, dsk, conversation_id, io) ==
    IF conversation_id \notin DOMAIN convs THEN dsk
    ELSE IF io = "fail" THEN dsk
    ELSE Put(dsk, FileName(conversation_id), json_dump(SaveView(convs[conversation_id])).text)

\* lines 44-56 for one file: the session dict built from its content
LoadView(text) ==
    LET conv_data == json_load(text)
        withMessages ==
            IF "messages" \in DOMAIN conv_data
            THEN [conv_data EXCEPT !.messages =
                     [i \in DOMAIN conv_data.messages |->
                         IF IsDict(conv_data.messages[i])
                         THEN ChatResponseFromDict(conv_data.messages[i])
                         ELSE conv_data.messages[i]]]
            ELSE conv_data
    IN  Put(withMessages, "vectorstore", CHROMA)

\* a load that gives up at the first file that does not parse
_load_conversations_aborting(dsk) ==
    IF \E fn \in DOMAIN dsk : EndsWithJson(fn) /\ JsonLoadRaises(dsk[fn])
    THEN << >>
    ELSE [conv_id \in { StripJson(fn) : fn \in DOMAIN dsk } |-> LoadView(dsk[FileName(conv_id)])]

\* _load_conversations: every *.json file that parses, keyed by its name
_load_conversations(dsk) ==
    LET loadable == { fn \in DOMAIN dsk : EndsWithJson(fn) /\ ~JsonLoadRaises(dsk[fn]) }
        ids == { StripJson(fn) : fn \in loadable }
    IN  [conv_id \in ids |-> LoadView(dsk[FileName(conv_id)])]

NewSession(new_id) ==
    [id |-> new_id, vectorstore |-> CHROMA, history |-> <<>>, messages |-> <<>>]

\* a lookup that never finds the session
IsKnownNever(convs, conversation_id) == FALSE

\* line 82
IsKnown(convs, conversation_id) ==
    Truthy(conversation_id) /\ conversation_id \in DOMAIN convs

\* _get_or_create_conversation. `uuid` is the value uuid4() would give,
\* `chroma` = "fail" when the Chroma constructor raises, `io` as above.
\* Result: the store and the files afterwards, whether it raised, the id of
\* the session returned, and whether uuid4() was called.
_get_or_create_conversation(convs, dsk, conversation_id, uuid, chroma, io) ==
    IF IsKnown(convs, conversation_id)
    THEN [raised |-> FALSE, conversations |-> convs, disk |-> dsk,
          id |-> conversation_id, drew |-> FALSE, wrote |-> FALSE]
    ELSE LET new_id == IF Truthy(conversation_id) THEN conversation_id ELSE uuid
             drew == ~Truthy(conversation_id)
             created == Put(convs, new_id, NewSession(new_id))
         IN  IF chroma = "fail"
             THEN [raised |-> TRUE, conversations |-> convs, disk |-> dsk,
                   id |-> None, drew |-> drew, wrote |-> FALSE]
             ELSE [raised |-> FALSE,
                   conversations |-> [created EXCEPT ![new_id] = SessionAfterSave(@)],
                   disk |-> _save_conversation(created, dsk, new_id, io),
                   id |-> new_id, drew |-> drew, wrote |-> TRUE]

----------------------------------------------------------------------------
(* The document catalog (src/services/document_processor.py) *)

DocumentInfo(id, filename, document_type, upload_date, total_pages, status, embedding_status) ==
    [cls |-> "DocumentInfo", id |-> id, filename |-> filename, document_type |-> document_type,
     upload_date |-> upload_date, total_pages |-> total_pages, status |-> status,
     embedding_status |-> embedding_status, error |-> None]

\* datetime.now(): the clock reading, one value in this model
datetime_now == [cls |-> "datetime", text |-> "2024-01-01 00:00:00"]

\* json.dump(..., default=str): a datetime is written as its text
Str(v) == IF v.cls = "datetime" THEN [cls |-> "str", text |-> v.text] ELSE v

\* the document the encoder writes for the catalog
MetadataDump(md) == [id \in DOMAIN md |-> [md[id] EXCEPT !.upload_date = Str(@)]]

\* _save_metadata: `io` = "fail" when open() raises, which nothing catches
\* here; the file is then left as it was
_save_metadata(md, file, io) ==
    IF io = "fail" THEN [raised |-> TRUE, file |-> file]
    ELSE [raised |-> FALSE, file |-> [exists |-> TRUE, data |-> MetadataDump(md)]]

\* _load_metadata
_load_metadata(file) == IF file.exists THEN file.data ELSE << >>

\* str.lower(), token by token
lower(s) ==
    [i \in DOMAIN s |->
        CASE s[i] = ".PDF" -> ".pdf"
          [] s[i] = "R" -> "r"
          [] s[i] = "TXT" -> "txt"
          [] OTHER -> s[i]]

\* os.path.splitext(filename)[1]
splitext(filename) == IF Len(filename) >= 2 THEN filename[Len(filename)] ELSE ""

allowed_types == {".pdf", ".docx", ".json", ".csv"}

\* filename.split('.')[-1]
document_type(filename) ==
    IF Len(filename) < 2 THEN filename[1]
    ELSE CASE filename[Len(filename)] = ".pdf" -> "pdf"
           [] filename[Len(filename)] = ".PDF" -> "PDF"
           [] filename[Len(filename)] = ".docx" -> "docx"
           [] filename[Len(filename)] = ".json" -> "json"
           [] filename[Len(filename)] = ".csv" -> "csv"
           [] OTHER -> "txt"

\* lines 101-121: what add_texts stores for the chunks of a document (the
\* i-th chunk has index i - 1 in the code)
ChunkDocs(filename, doc_id, chunks) ==
    [i \in DOMAIN chunks |->
        [page_content |-> chunks[i],
         metadata |-> [document_name |-> filename, document_id |-> doc_id,
                       page_number |-> i, chunk |-> i - 1]]]

\* the catalog record of a document ingested by an earlier process
StoredInfo(id, filename, total_pages) ==
    model_dump(DocumentInfo(id, filename, document_type(filename), Str(datetime_now),
                            total_pages, "processed", "completed"))

\* what earlier ingests have left: the collection in the vector database and
\* the catalog file
IndexChoices ==
    { ChunkDocs(<<"a", ".pdf">>, "e1", << LongText, <<"d", "2">> >>)
      \o ChunkDocs(<<"b", ".csv">>, "e2", << <<"d", "3">>, <<"d", "4">> >>) }

InitialMetadataFile ==
    [exists |-> TRUE,
     data |-> Put(Put(<< >>, "e1", StoredInfo("e1", <<"a", ".pdf">>, 2)),
                  "e2", StoredInfo("e2", <<"b", ".csv">>, 1))]

----------------------------------------------------------------------------
(* Export (src/services/export_service.py) *)

\* no exception was raised
NoException == [cls |-> "None"]

\* _create_filename
_create_filename(conversation_id, format, timestamp) ==
    <<"chat_export_", conversation_id, "_", timestamp, ".", format>>

\* lines 25-38: what export_to_txt writes for the messages, and what the
\* PDF is built from (lines 81-108)
Rendered(messages) ==
    [i \in DOMAIN messages |->
        [user |-> messages[i].user_message, assistant |-> messages[i].response,
         sources |-> [j \in DOMAIN messages[i].sources |->
                         <<messages[i].sources[j].document_name,
                           messages[i].sources[j].page_number>>]]]

\* an export that writes a text file for a format it does not know
export_chat_default_txt(files, messages, conversation_id, format, timestamp, render) ==
    LET formatted == [i \in DOMAIN messages |->
                         IF IsDict(messages[i]) THEN ChatResponseFromDict(messages[i])
                         ELSE messages[i]]
        filename == _create_filename(conversation_id, "txt", timestamp)
    IN  [raised |-> NoException, filename |-> filename,
         files |-> Put(files, filename, Rendered(formatted))]

\* ExportService.export_chat on the files of export_dir. `render` = "raise"
\* when reportlab raises while it builds the PDF. Result: what was raised,
\* the file name returned, the files afterwards.
export_chat(files, messages, conversation_id, format, timestamp, render) ==
    LET formatted == [i \in DOMAIN messages |->
                         IF IsDict(messages[i]) THEN ChatResponseFromDict(messages[i])
                         ELSE messages[i]]
        pdf == _create_filename(conversation_id, "pdf", timestamp)
        txt == _create_filename(conversation_id, "txt", timestamp)
    IN  IF lower(format) = <<"pdf">>
        THEN IF render = "raise"
             THEN [raised |-> [cls |-> "Exception"], filename |-> <<>>, files |-> files]
             ELSE [raised |-> NoException, filename |-> pdf,
                   files |-> Put(files, pdf, Rendered(formatted))]
        ELSE IF lower(format) = <<"txt">>
        THEN [raised |-> NoException, filename |-> txt,
              files |-> Put(files, txt, Rendered(formatted))]
        ELSE [raised |-> [cls |-> "ValueError"], filename |-> <<>>, files |-> files]

HTTPException(status_code) == [cls |-> "HTTPException", status_code |-> status_code]

\* main.py lines 112-114 and 128-130: the except clause of a handler
\* catches whatever its try block raised, an HTTPException included, and
\* raises the exception the request is answered with
except_Exception(e) == HTTPException(500)

----------------------------------------------------------------------------
(* Retrieval and the events of a chat call *)

RECURSIVE Reverse(_)
Reverse(s) == IF s = <<>> THEN <<>> ELSE Reverse(Tail(s)) \o <<Head(s)>>

\* the collection ranked by similarity to the query: the metric is the
\* store's, fixed per query
Ranked(idx, message) == IF message = "q1" THEN idx ELSE Reverse(idx)

\* vectorstore.similarity_search(message, k)
similarity_search(idx, message, k) == Take(Ranked(idx, message), k)

\* dict.get(key, default)
Get(d, key, default) == IF key \in DOMAIN d THEN d[key] ELSE default

\* sources whose snippet is the whole text of the chunk
MakeSourcesWholeText(docs) ==
    [i \in DOMAIN docs |->
        Source(Get(docs[i].metadata, "document_name", "Unknown"),
               Get(docs[i].metadata, "page_number", 1),
               docs[i].page_content \o <<"...">>)]

\* lines 113-120
MakeSources(docs) ==
    [i \in DOMAIN docs |->
        Source(Get(docs[i].metadata, "document_name", "Unknown"),
               Get(docs[i].metadata, "page_number", 1),
               Take(docs[i].page_content, SnippetLen) \o <<"...">>)]

\* line 110
MakeContext(docs) == Join(<<"\n">>, [i \in DOMAIN docs |-> docs[i].page_content])

\* the record json.dumps serialises at lines 124-129 and 150-155
Event(response, sources, conv_id, message) ==
    [response |-> response,
     sources |-> [i \in DOMAIN sources |-> model_dump(sources[i])],
     conversation_id |-> conv_id,
     user_message |-> message]

\* an error event that forgets the sources already computed
ErrorEventNoSources(locals, uuid) ==
    Event(ERROR_RESPONSE, <<>>,
          IF "conv_id" \in DOMAIN locals THEN locals.conv_id ELSE uuid,
          locals.message)

\* lines 181-186: what the handler finds in locals()
ErrorEvent(locals, uuid) ==
    Event(ERROR_RESPONSE,
          IF "sources" \in DOMAIN locals THEN locals.sources ELSE <<>>,
          IF "conv_id" \in DOMAIN locals THEN locals.conv_id ELSE uuid,
          locals.message)

\* a prompt that leaves the session history out
BuildMessagesNoHistory(context, message, history) ==
    << SYSTEM_MESSAGE,
       HumanMessage(<<"Context: ">> \o context \o <<"\n\nQuestion: ">> \o <<message>>) >>

\* lines 136-143
BuildMessages(context, message, history) ==
    LET head == << SYSTEM_MESSAGE,
                   HumanMessage(<<"Context: ">> \o context \o <<"\n\nQuestion: ">> \o <<message>>) >>
    IN  IF history # <<>> THEN head \o LastN(history, HistoryWindow) ELSE head

\* the increment alone instead of the text so far
AccumulateDelta(full_response, chunk) == chunk.content

\* line 149
Accumulate(full_response, chunk) == full_response \o chunk.content

\* an append that forgets the user entry of the history
AppendTurnNoUser(session, message, full_response, sources, conv_id) ==
    [session EXCEPT
        !.history = Append(@, AIMessage(full_response)),
        !.messages = Append(@, ChatResponse(full_response, sources, conv_id, message))]

\* lines 158-172 on the session dict the call holds
AppendTurn(session, message, full_response, sources, conv_id) ==
    [session EXCEPT
        !.history = @ \o << HumanMessage(message), AIMessage(full_response) >>,
        !.messages = Append(@, ChatResponse(full_response, sources, conv_id, message))]

\* a lookup that creates the session it does not find
get_conversation_history_creating(convs, conversation_id) ==
    IF conversation_id \notin DOMAIN convs
    THEN [result |-> <<>>, conversations |-> Put(convs, conversation_id, NewSession(conversation_id))]
    ELSE [result |-> convs[conversation_id].messages, conversations |-> convs]

\* get_conversation_history: what it returns and the store afterwards
get_conversation_history(convs, conversation_id) ==
    IF conversation_id \notin DOMAIN convs
    THEN [result |-> <<>>, conversations |-> convs]
    ELSE IF "messages" \notin DOMAIN convs[conversation_id]
    THEN [result |-> <<>>, conversations |-> convs]
    ELSE [result |-> convs[conversation_id].messages, conversations |-> convs]

----------------------------------------------------------------------------
(* The state machine *)

IdleCall == [pc |-> "idle", events |-> <<>>, locals |-> [message |-> None], received |-> <<>>,
             asked |-> 0]

\* a generator that went down with its process
KilledCall == [pc |-> "killed", events |-> <<>>, locals |-> [message |-> None], received |-> <<>>,
               asked |-> 0]

\* the export and download requests of a run
RequestSlots == {1, 2}

IdleRequest == [pc |-> "idle", endpoint |-> None, args |-> <<>>, raised |-> NoException,
                status_code |-> 0, file_name |-> <<>>]

\* the upload requests of a run (each runs upload_document once)
IngestSlots == {1, 2}

IdleIngest == [pc |-> "idle", filename |-> <<>>, doc_id |-> None, chunks |-> <<>>,
               status_code |-> 0]

Ended == {"done", "error", "cancelled"}
Suspended == {"thinking", "streaming"}

\* ids a client can have learnt: those of live sessions and of saved records
LearntIds == DOMAIN conversations \cup { StripJson(fn) : fn \in DOMAIN disk }

ConversationIdInputs == {None} \cup ClientIds \cup LearntIds

Init ==
    /\ disk = << >>
    /\ conversations = _load_conversations(disk)
    /\ index \in IndexChoices
    /\ calls = [c \in Slots |-> IdleCall]
    /\ completed = << >>
    /\ nextUuid = 0
    /\ ioFailed = FALSE
    /\ restarts = 0
    /\ metadataFile = InitialMetadataFile
    /\ metadata = _load_metadata(metadataFile)
    /\ uploads = { <<"e1", "a", ".pdf">>, <<"e2", "b", ".csv">> }
    /\ ingests = [i \in IngestSlots |-> IdleIngest]
    /\ exportDir = << >>
    /\ requests = [r \in RequestSlots |-> IdleRequest]

RECURSIVE SumAsked(_)
SumAsked(S) == IF S = {} THEN 0
               ELSE LET c == CHOOSE x \in S : TRUE IN calls[c].asked + SumAsked(S \ {c})
\* increments asked of the generation capability so far
Asked == SumAsked(Slots)

CompletedOf(id) == IF id \in DOMAIN completed THEN completed[id] ELSE <<>>

\* lines 101-129 (and 179-187 when they raise): from the request to the
\* first yield. `fault` names what raises: "chroma" the constructor inside
\* _get_or_create_conversation, "search" the similarity search.
Start(c, message, conversation_id, fault, io) ==
    /\ calls[c].pc = "idle"
    /\ \A b \in Slots : b < c => calls[b].pc # "idle"
    /\ fault = "chroma" => ~IsKnown(conversations, conversation_id)
    /\ io = "fail" => /\ ~IsKnown(conversations, conversation_id)
                      /\ fault # "chroma"
    /\ LET r == _get_or_create_conversation(conversations, disk, conversation_id,
                    uuid4(nextUuid + 1), IF fault = "chroma" THEN "fail" ELSE "ok", io)
           drawn == nextUuid + (IF r.drew THEN 1 ELSE 0)
           \* the locals the handler and the later segments read (the
           \* conversation_id argument is read at line 103 only)
           args == [message |-> message]
           resolved == [message |-> message, conv_id |-> r.id]
           docs == similarity_search(index, message, SearchK)
           sources == MakeSources(docs)
           retrieved == [message |-> message, conv_id |-> r.id, docs |-> docs, context |-> MakeContext(docs),
                         sources |-> sources]
       IN  /\ conversations' = r.conversations
           /\ disk' = r.disk
           /\ ioFailed' = (ioFailed \/ io = "fail")
           /\ IF r.raised
              THEN /\ calls' = [calls EXCEPT ![c] =
                          [pc |-> "error", events |-> << ErrorEvent(args, uuid4(drawn + 1)) >>,
                           locals |-> args, received |-> <<>>, asked |-> 0]]
                   /\ nextUuid' = drawn + 1
              ELSE IF fault = "search"
              THEN /\ calls' = [calls EXCEPT ![c] =
                          [pc |-> "error", events |-> << ErrorEvent(resolved, uuid4(drawn + 1)) >>,
                           locals |-> resolved, received |-> <<>>, asked |-> 0]]
                   /\ nextUuid' = drawn
              ELSE /\ calls' = [calls EXCEPT ![c] =
                          [pc |-> "thinking",
                           events |-> << Event(THINKING_RESPONSE, sources, r.id, message) >>,
                           locals |-> retrieved, received |-> <<>>, asked |-> 0]]
                   /\ nextUuid' = drawn
    /\ UNCHANGED <<index, completed, restarts>>
    /\ UNCHANGED docVars
    /\ UNCHANGED exportVars

\* a generator that yields the placeholder again when the stream opens
BeginGenerationRethinks(c) ==
    /\ calls[c].pc = "thinking"
    /\ LET l == calls[c].locals
           messages == BuildMessages(l.context, l.message, conversations[l.conv_id].history)
       IN  calls' = [calls EXCEPT ![c].pc = "streaming",
                                  ![c].events = Append(@, Event(THINKING_RESPONSE, l.sources,
                                                                l.conv_id, l.message)),
                                  ![c].locals = Put(Put(l, "messages", messages),
                                                    "full_response", <<>>)]
    /\ UNCHANGED <<conversations, disk, index, completed, nextUuid, ioFailed, restarts>>
    /\ UNCHANGED docVars
    /\ UNCHANGED exportVars

\* lines 132-146: the consumer asks for the next event, the sleep ends, the
\* prompt is built from the session's history as it is now, the stream opens
BeginGeneration(c) ==
    /\ calls[c].pc = "thinking"
    /\ LET l == calls[c].locals
           messages == BuildMessages(l.context, l.message, conversations[l.conv_id].history)
       IN  calls' = [calls EXCEPT ![c].pc = "streaming",
                                  ![c].locals = Put(Put(l, "messages", messages),
                                                    "full_response", <<>>)]
    /\ UNCHANGED <<conversations, disk, index, completed, nextUuid, ioFailed, restarts>>
    /\ UNCHANGED docVars
    /\ UNCHANGED exportVars

\* lines 147-155: one increment arrives
Chunk(c, chunk) ==
    /\ calls[c].pc = "streaming"
    /\ Asked < MaxChunks
    /\ LET l == calls[c].locals
           full_response == Accumulate(l.full_response, chunk)
       IN  IF "content" \in DOMAIN chunk
           THEN calls' = [calls EXCEPT
                    ![c].locals.full_response = full_response,
                    ![c].events = Append(@, Event(full_response, l.sources, l.conv_id, l.message)),
                    ![c].received = Append(@, chunk.content),
                    ![c].asked = @ + 1]
           ELSE calls' = [calls EXCEPT ![c].asked = @ + 1]
    /\ UNCHANGED <<conversations, disk, index, completed, nextUuid, ioFailed, restarts>>
    /\ UNCHANGED docVars
    /\ UNCHANGED exportVars

\* a save whose failure is not swallowed: the turn is appended, the write
\* raises and the handler at line 179 answers with the error event
FinishFailsOnWriteError(c, io) ==
    /\ calls[c].pc = "streaming"
    /\ LET l == calls[c].locals
           appended == [conversations EXCEPT ![l.conv_id] =
                           AppendTurn(@, l.message, l.full_response, l.sources, l.conv_id)]
       IN  /\ conversations' = appended
           /\ disk' = _save_conversation(appended, disk, l.conv_id, io)
           /\ completed' = IF io = "fail" THEN completed
                            ELSE Put(completed, l.conv_id,
                                     Append(CompletedOf(l.conv_id),
                                            [user_message |-> l.message,
                                             response |-> l.full_response]))
    /\ ioFailed' = (ioFailed \/ io = "fail")
    /\ calls' = IF io = "fail"
                THEN [calls EXCEPT ![c].pc = "error",
                                   ![c].events = Append(@, ErrorEvent(calls[c].locals,
                                                                      uuid4(nextUuid + 1)))]
                ELSE [calls EXCEPT ![c].pc = "done"]
    /\ UNCHANGED <<index, nextUuid, restarts>>
    /\ UNCHANGED docVars
    /\ UNCHANGED exportVars

\* lines 157-173: the stream is exhausted
Finish(c, io) ==
    /\ calls[c].pc = "streaming"
    /\ LET l == calls[c].locals
           appended == [conversations EXCEPT ![l.conv_id] =
                           AppendTurn(@, l.message, l.full_response, l.sources, l.conv_id)]
       IN  /\ conversations' = [appended EXCEPT ![l.conv_id] = SessionAfterSave(@)]
           /\ disk' = _save_conversation(appended, disk, l.conv_id, io)
           /\ completed' = Put(completed, l.conv_id,
                               Append(CompletedOf(l.conv_id),
                                      [user_message |-> l.message, response |-> l.full_response]))
    /\ ioFailed' = (ioFailed \/ io = "fail")
    /\ calls' = [calls EXCEPT ![c].pc = "done"]
    /\ UNCHANGED <<index, nextUuid, restarts>>
    /\ UNCHANGED docVars
    /\ UNCHANGED exportVars

\* a handler that stores what was generated before the failure
FailPersistsPartial(c) ==
    /\ calls[c].pc \in Suspended
    /\ LET l == calls[c].locals
           appended == IF "full_response" \in DOMAIN l
                       THEN [conversations EXCEPT ![l.conv_id] =
                                AppendTurn(@, l.message, l.full_response, l.sources, l.conv_id)]
                       ELSE conversations
       IN  /\ conversations' = appended
           /\ disk' = _save_conversation(appended, disk, l.conv_id, "ok")
    /\ calls' = [calls EXCEPT ![c].pc = "error",
                              ![c].events = Append(@, ErrorEvent(calls[c].locals, uuid4(nextUuid + 1)))]
    /\ UNCHANGED <<index, completed, nextUuid, ioFailed, restarts>>
    /\ UNCHANGED docVars
    /\ UNCHANGED exportVars

\* a failure that leaves the generator as an exception
FailEscapes(c) ==
    /\ calls[c].pc \in Suspended
    /\ calls' = [calls EXCEPT ![c].pc = "raised"]
    /\ UNCHANGED <<conversations, disk, index, completed, nextUuid, ioFailed, restarts>>
    /\ UNCHANGED docVars
    /\ UNCHANGED exportVars

\* lines 175-187: the prompt assembly or the stream raises
Fail(c) ==
    /\ calls[c].pc \in Suspended
    /\ calls' = [calls EXCEPT ![c].pc = "error",
                              ![c].events = Append(@, ErrorEvent(calls[c].locals, uuid4(nextUuid + 1)))]
    /\ UNCHANGED <<conversations, disk, index, completed, nextUuid, ioFailed, restarts>>
    /\ UNCHANGED docVars
    /\ UNCHANGED exportVars

\* a cancellation that the handler at line 179 catches like a failure
CancelCaught(c) ==
    /\ calls[c].pc \in Suspended
    /\ calls' = [calls EXCEPT ![c].pc = "cancelled",
                              ![c].events = Append(@, ErrorEvent(calls[c].locals, uuid4(nextUuid + 1)))]
    /\ UNCHANGED <<conversations, disk, index, completed, nextUuid, ioFailed, restarts>>
    /\ UNCHANGED docVars
    /\ UNCHANGED exportVars

\* the consumer goes away: GeneratorExit or CancelledError is thrown into
\* the generator at its yield or await; neither is an Exception, so no
\* handler of the generator runs
Cancel(c) ==
    /\ calls[c].pc \in Suspended
    /\ calls' = [calls EXCEPT ![c].pc = "cancelled"]
    /\ UNCHANGED <<conversations, disk, index, completed, nextUuid, ioFailed, restarts>>
    /\ UNCHANGED docVars
    /\ UNCHANGED exportVars

\* the process ends and ChatService.__init__ runs again (line 28); the
\* catalog is read again from the file it was last saved to
Restart ==
    /\ restarts < MaxRestarts
    /\ conversations' = _load_conversations(disk)
    /\ calls' = [c \in Slots |-> IF calls[c].pc = "idle" THEN IdleCall ELSE KilledCall]
    /\ completed' = << >>
    /\ restarts' = restarts + 1
    /\ UNCHANGED <<disk, index, nextUuid, ioFailed>>
    /\ UNCHANGED docVars
    /\ UNCHANGED exportVars

Next ==
    \/ \E c \in Slots, message \in Messages, conversation_id \in ConversationIdInputs,
          fault \in {"none", "chroma", "search"}, io \in {"ok", "fail"} :
            Start(c, message, conversation_id, fault, io)
    \/ \E c \in Slots : BeginGeneration(c)
    \/ \E c \in Slots, chunk \in Chunks : Chunk(c, chunk)
    \/ \E c \in Slots, io \in {"ok", "fail"} : Finish(c, io)
    \/ \E c \in Slots : Fail(c)
    \/ \E c \in Slots : Cancel(c)
    \/ Restart

Spec == Init /\ [][Next]_vars

----------------------------------------------------------------------------
(* The ingest of an upload: upload_document (src/main.py) and
   process_document, cut where the claims about the catalog look at it: at
   the await of the upload's bytes, when the record has been created, and
   when the handler of an indexing failure is entered. *)

\* the HTTPException of upload_document: whatever is raised inside its try
\* block is caught at line 67 and answered with status 500
Raised(i) == [ingests EXCEPT ![i].pc = "raised", ![i].status_code = 500]

\* an endpoint that leaves the validation to process_document, which looks
\* at the extension only after it has saved the file
UploadUnvalidated(i, filename) ==
    /\ ingests[i].pc = "idle"
    /\ \A j \in IngestSlots : j < i => ingests[j].pc # "idle"
    /\ ingests' = [ingests EXCEPT ![i] = [IdleIngest EXCEPT !.pc = "reading",
                                            !.filename = filename,
                                            !.doc_id = uuid4(nextUuid + 1)]]
    /\ uploads' = uploads \cup { <<uuid4(nextUuid + 1)>> \o filename }
    /\ nextUuid' = nextUuid + 1
    /\ UNCHANGED <<metadata, metadataFile, index, ioFailed>>
    /\ UNCHANGED <<conversations, disk, calls, completed, restarts>>
    /\ UNCHANGED exportVars

\* main.py lines 41-69 and process_document lines 43-54: the extension is
\* validated, the id drawn and the file opened for writing; the
\* HTTPException(400) of lines 51-61 is raised inside the try of line 44 and
\* caught at line 67
Upload(i, filename) ==
    /\ ingests[i].pc = "idle"
    /\ \A j \in IngestSlots : j < i => ingests[j].pc # "idle"
    /\ IF splitext(lower(filename)) = "" \/ splitext(lower(filename)) \notin allowed_types
       THEN /\ ingests' = [ingests EXCEPT ![i] = [IdleIngest EXCEPT !.pc = "raised",
                                                    !.filename = filename,
                                                    !.status_code =
                                                        except_Exception(HTTPException(400)).status_code]]
            /\ UNCHANGED <<uploads, nextUuid>>
       ELSE /\ ingests' = [ingests EXCEPT ![i] = [IdleIngest EXCEPT !.pc = "reading",
                                                    !.filename = filename,
                                                    !.doc_id = uuid4(nextUuid + 1)]]
            /\ uploads' = uploads \cup { <<uuid4(nextUuid + 1)>> \o filename }
            /\ nextUuid' = nextUuid + 1
    /\ UNCHANGED <<metadata, metadataFile, index, ioFailed>>
    /\ UNCHANGED <<conversations, disk, calls, completed, restarts>>
    /\ UNCHANGED exportVars

\* lines 55-97: the bytes are written, the text extracted and split, the
\* record created and the catalog saved. `outcome` = "raise" when the
\* extractor raises.
Extract(i, outcome, chunks, total_pages, io) ==
    /\ ingests[i].pc = "reading"
    /\ LET g == ingests[i]
           doc_info == DocumentInfo(g.doc_id, g.filename, document_type(g.filename),
                                    datetime_now, total_pages, "processed", "pending")
           stored == Put(metadata, g.doc_id, model_dump(doc_info))
           saved == _save_metadata(stored, metadataFile, io)
       IN  IF splitext(lower(g.filename)) \notin allowed_types \/ outcome = "raise"
           THEN /\ ingests' = Raised(i)
                /\ UNCHANGED <<metadata, metadataFile, ioFailed>>
           ELSE /\ metadata' = stored
                /\ metadataFile' = saved.file
                /\ ioFailed' = (ioFailed \/ io = "fail")
                /\ ingests' = IF saved.raised THEN Raised(i)
                               ELSE [ingests EXCEPT ![i].pc = "pending", ![i].chunks = chunks]
    /\ UNCHANGED <<uploads, nextUuid, index>>
    /\ UNCHANGED <<conversations, disk, calls, completed, restarts>>
    /\ UNCHANGED exportVars

\* lines 100-127: the chunks are added to the collection, the status set
\* and the catalog saved. `embed` = "raise" when the Chroma constructor or
\* the first embedding raises, "partial" when a later one does, after the
\* chunks before it were stored.
Index(i, embed, io) ==
    /\ ingests[i].pc = "pending"
    /\ LET g == ingests[i]
           docs == ChunkDocs(g.filename, g.doc_id, g.chunks)
           updated == [metadata EXCEPT ![g.doc_id].embedding_status = "completed"]
           saved == _save_metadata(updated, metadataFile, io)
       IN  CASE embed = "ok" ->
                    /\ index' = index \o docs
                    /\ metadata' = updated
                    /\ metadataFile' = saved.file
                    /\ ioFailed' = (ioFailed \/ io = "fail")
                    /\ ingests' = IF saved.raised
                                   THEN [ingests EXCEPT ![i].pc = "handling"]
                                   ELSE [ingests EXCEPT ![i].pc = "returned",
                                                        ![i].status_code = 200]
              [] embed = "partial" ->
                    /\ Len(docs) >= 2
                    /\ io = "ok"
                    /\ index' = index \o Take(docs, Len(docs) - 1)
                    /\ ingests' = [ingests EXCEPT ![i].pc = "handling"]
                    /\ UNCHANGED <<metadata, metadataFile, ioFailed>>
              [] OTHER ->
                    /\ io = "ok"
                    /\ ingests' = [ingests EXCEPT ![i].pc = "handling"]
                    /\ UNCHANGED <<index, metadata, metadataFile, ioFailed>>
    /\ UNCHANGED <<uploads, nextUuid>>
    /\ UNCHANGED <<conversations, disk, calls, completed, restarts>>
    /\ UNCHANGED exportVars

\* lines 129-134 and 138-140: the handler sets the status, saves the
\* catalog and raises; if the save raises, that exception goes up instead
HandleFailure(i, io) ==
    /\ ingests[i].pc = "handling"
    /\ LET g == ingests[i]
           updated == [metadata EXCEPT ![g.doc_id].embedding_status = "failed"]
           saved == _save_metadata(updated, metadataFile, io)
       IN  /\ metadata' = updated
           /\ metadataFile' = saved.file
    /\ ioFailed' = (ioFailed \/ io = "fail")
    /\ ingests' = Raised(i)
    /\ UNCHANGED <<uploads, nextUuid, index>>
    /\ UNCHANGED <<conversations, disk, calls, completed, restarts>>
    /\ UNCHANGED exportVars

NextIngest ==
    \/ \E i \in IngestSlots, filename \in Filenames : Upload(i, filename)
    \/ \E i \in IngestSlots, outcome \in {"ok", "raise"}, chunks \in ChunkChoices,
          total_pages \in PageChoices, io \in {"ok", "fail"} :
            Extract(i, outcome, chunks, total_pages, io)
    \/ \E i \in IngestSlots, embed \in {"ok", "partial", "raise"}, io \in {"ok", "fail"} :
            Index(i, embed, io)
    \/ \E i \in IngestSlots, io \in {"ok", "fail"} : HandleFailure(i, io)

\* the uploads of a run, on the collection and the catalog earlier runs left
SpecIngest == Init /\ [][NextIngest]_vars

----------------------------------------------------------------------------
(* The export and download endpoints (src/main.py lines 99-130), beside one
   chat call and the uploads the upload endpoint rejects. *)

\* the answer to a request: what was raised in the try block of its handler,
\* the status the caller gets and the file name in the answer (empty if none)
Answered(r, endpoint, args, raised, file_name) ==
    [requests EXCEPT ![r] =
        [pc |-> "answered", endpoint |-> endpoint, args |-> args, raised |-> raised,
         status_code |-> IF raised = NoException THEN 200
                         ELSE except_Exception(raised).status_code,
         file_name |-> file_name]]

\* export_chat (main.py lines 99-114)
ExportChat(r, conversation_id, format, timestamp, render) ==
    /\ requests[r].pc = "idle"
    /\ \A q \in RequestSlots : q < r => requests[q].pc # "idle"
    /\ LET h == get_conversation_history(conversations, conversation_id)
           e == export_chat(exportDir, h.result, conversation_id, format, timestamp, render)
           args == [conversation_id |-> conversation_id, format |-> format]
       IN  /\ conversations' = h.conversations
           /\ IF h.result = <<>>
              THEN /\ requests' = Answered(r, "export", args, HTTPException(404), <<>>)
                   /\ exportDir' = exportDir
              ELSE /\ requests' = Answered(r, "export", args, e.raised, e.filename)
                   /\ exportDir' = e.files
    /\ UNCHANGED <<disk, index, calls, completed, nextUuid, ioFailed, restarts>>
    /\ UNCHANGED docVars

\* download_file (main.py lines 116-130)
DownloadFile(r, filename) ==
    /\ requests[r].pc = "idle"
    /\ \A q \in RequestSlots : q < r => requests[q].pc # "idle"
    /\ requests' = IF filename \in DOMAIN exportDir
                   THEN Answered(r, "download", [filename |-> filename], NoException, filename)
                   ELSE Answered(r, "download", [filename |-> filename], HTTPException(404), <<>>)
    /\ UNCHANGED <<conversations, disk, index, calls, completed, nextUuid, ioFailed, restarts>>
    /\ UNCHANGED docVars
    /\ UNCHANGED exportDir

\* the ids an export may be asked for
ExportIds == LearntIds \cup {"c1", "c2"}

\* the names a download may be asked for: those of the files there are, a
\* name an export could have returned, and one that none returns
DownloadNames ==
    DOMAIN exportDir \cup {_create_filename("c1", "txt", "t1"), <<"missing.txt">>}

NextApi ==
    \/ \E conversation_id \in {None, "c1"} : Start(1, "q1", conversation_id, "none", "ok")
    \/ BeginGeneration(1)
    \/ \E chunk \in Chunks : Chunk(1, chunk)
    \/ Finish(1, "ok")
    \/ Restart
    \/ \E r \in RequestSlots, conversation_id \in ExportIds, format \in Formats,
          timestamp \in Timestamps, render \in {"ok", "raise"} :
            ExportChat(r, conversation_id, format, timestamp, render)
    \/ \E r \in RequestSlots, filename \in DownloadNames : DownloadFile(r, filename)
    \/ \E filename \in Filenames :
            /\ splitext(lower(filename)) \notin allowed_types
            /\ Upload(1, filename)

SpecApi == Init /\ [][NextApi]_vars

----------------------------------------------------------------------------
(* Reading the event stream of a call *)

\* the call got past retrieval, so its first event is the THINKING placeholder
PastRetrieval(c) == "sources" \in DOMAIN calls[c].locals

\* the STREAMING events of a call: those after the placeholder, the final
\* error event excluded
StreamingEvents(c) ==
    LET e == calls[c].events
        first == IF PastRetrieval(c) THEN 2 ELSE 1
        last == IF calls[c].pc = "error" THEN Len(e) - 1 ELSE Len(e)
    IN  SubSeq(e, first, last)

\* the text of the last STREAMING event, empty if there was none
LastStreamed(c) ==
    LET se == StreamingEvents(c)
    IN  IF se = <<>> THEN <<>> ELSE se[Len(se)].response

----------------------------------------------------------------------------
(* C1: every STREAMING event of a call carries the whole text generated so
   far, the concatenation of all increments received up to it, so each
   event's response has the previous event's response as a prefix. *)
C1_StreamingMonotone ==
    \A c \in Slots :
        LET se == StreamingEvents(c)
        IN  /\ Len(se) = Len(calls[c].received)
            /\ \A i \in DOMAIN se :
                /\ se[i].response = Concat(SubSeq(calls[c].received, 1, i))
                /\ i > 1 => IsPrefix(se[i - 1].response, se[i].response)

\* a call that streamed an event and then a strict extension of it
C1_Witness ==
    \E c \in Slots :
        LET se == StreamingEvents(c)
        IN  /\ Len(se) >= 2
            /\ se[1].response = <<"a">>
            /\ se[2].response = <<"a", "a">>

(* C3: a call that fails ends with exactly one error event, its last event;
   the event carries the fixed apology, the sources of the THINKING event if
   one was emitted and no sources otherwise, and the id of the session the
   call resolved; only when resolution itself failed is the id a new one,
   under which no session or record exists. *)
C3_SingleErrorEvent ==
    \A c \in Slots :
        calls[c].pc = "error" =>
            LET e == calls[c].events
                err == e[Len(e)]
            IN  /\ Len(e) >= 1
                /\ err.response = ERROR_RESPONSE
                /\ err.user_message = calls[c].locals.message
                /\ \A i \in 1..(Len(e) - 1) : e[i].response # ERROR_RESPONSE
                /\ IF PastRetrieval(c)
                   THEN /\ Len(e) >= 2
                        /\ e[1].response = THINKING_RESPONSE
                        /\ err.sources = e[1].sources
                        /\ err.conversation_id = e[1].conversation_id
                   ELSE /\ Len(e) = 1
                        /\ err.sources = <<>>
                /\ IF "conv_id" \in DOMAIN calls[c].locals
                   THEN /\ err.conversation_id \in DOMAIN conversations
                        /\ conversations[err.conversation_id].id = err.conversation_id
                   ELSE /\ err.conversation_id \notin LearntIds \cup ClientIds \cup {None}
                        /\ \A d \in Slots \ {c} : \A i \in DOMAIN calls[d].events :
                               calls[d].events[i].conversation_id # err.conversation_id

\* one call failed while resolving its conversation, another after it had
\* streamed an increment, with sources to report
C3_Witness ==
    \E c, d \in Slots :
        /\ calls[c].pc = "error" /\ "conv_id" \notin DOMAIN calls[c].locals
        /\ calls[d].pc = "error" /\ Len(calls[d].events) >= 3
        /\ calls[d].events[Len(calls[d].events)].sources # <<>>

----------------------------------------------------------------------------
(* What a session and its record hold *)

\* the session dict as it would be read back from its record
Reloaded(id) == _load_conversations(disk)[id]

\* the record of a conversation can be read back
Loadable(id) == id \in DOMAIN _load_conversations(disk)

\* the record of a conversation holds the turns its session holds
RecordHoldsSession(id) ==
    /\ Loadable(id)
    /\ Reloaded(id).messages = conversations[id].messages
    /\ Len(Reloaded(id).history) = Len(conversations[id].history)

\* the ChatTurn a completed call stands for
TurnOf(c) ==
    LET e == calls[c].events
    IN  ChatResponseFromDict([response |-> LastStreamed(c), sources |-> e[1].sources,
                              conversation_id |-> e[1].conversation_id,
                              user_message |-> e[1].user_message])

\* how many times a turn occurs in a session's messages
Occurrences(turn, messages) == Cardinality({ i \in DOMAIN messages : messages[i] = turn })

\* a record that reads back as a session with no turn
EmptyRecord(text) ==
    /\ ~JsonLoadRaises(text)
    /\ json_load(text).history = <<>>
    /\ json_load(text).messages = <<>>

\* the sessions of before a step are the same after it and a session the
\* step created is empty; a record is what it was, or is written anew as
\* the record of an empty session
TurnsKept ==
    /\ \A id \in DOMAIN conversations :
           id \in DOMAIN conversations' /\ conversations'[id] = conversations[id]
    /\ \A id \in DOMAIN conversations' \ DOMAIN conversations :
           conversations'[id].history = <<>> /\ conversations'[id].messages = <<>>
    /\ DOMAIN disk \subseteq DOMAIN disk'
    /\ \A fn \in DOMAIN disk' :
           \/ fn \in DOMAIN disk /\ disk'[fn] = disk[fn]
           \/ /\ StripJson(fn) \notin DOMAIN conversations
              /\ EmptyRecord(disk'[fn])

----------------------------------------------------------------------------
(* C2: when the generation completes, one ChatTurn is appended to the
   session, with the text of the last STREAMING event and the user message,
   sources and conversation id of the call's events; the session is then
   saved, so its record holds that turn; the call emits nothing more. *)
C2_DoneAppendsAndSaves ==
    \A c \in Slots :
        calls[c].pc = "done" =>
            LET id == calls[c].events[1].conversation_id
            IN  /\ Occurrences(TurnOf(c), conversations[id].messages) >= 1
                /\ Len(calls[c].events) = 1 + Len(calls[c].received)
                /\ ~ioFailed => RecordHoldsSession(id)

(* C4: the step in which a call fails appends nothing: every session is
   what it was before the step and so is every record, except that a session
   the failing call created on the way is empty, as is the record written
   for it. *)
C4_ErrorKeepsTurns ==
    [][ \A c \in Slots :
            (calls[c].pc # "error" /\ calls'[c].pc = "error") => TurnsKept ]_vars

\* a call failed after streaming an increment, in a session that holds the
\* turn of another call and nothing else
C4_Witness ==
    \E c, d \in Slots :
        /\ calls[c].pc = "error" /\ calls[c].received # <<>>
        /\ calls[d].pc = "done"
        /\ calls[c].locals.conv_id = calls[d].locals.conv_id
        /\ Len(conversations[calls[c].locals.conv_id].messages) = 1
        /\ Len(conversations[calls[c].locals.conv_id].history) = 2

(* C5: when the consumer stops reading a call that has not ended, the step
   changes no session and no record and emits no event, and from then on the
   call asks for no increment, emits nothing and appends nothing: nothing of
   it changes any more. *)
C5_CancelStopsCall ==
    [][ \A c \in Slots :
            /\ (calls[c].pc \in Suspended /\ calls'[c].pc = "cancelled") =>
                   /\ calls'[c].events = calls[c].events
                   /\ calls'[c].asked = calls[c].asked
                   /\ conversations' = conversations
                   /\ disk' = disk
            /\ calls[c].pc = "cancelled" =>
                   \/ calls'[c] = calls[c]
                   \/ calls'[c].pc = "killed" ]_vars

\* a call cancelled after an increment, while the other call of the same
\* session went on to complete
C5_Witness ==
    \E c, d \in Slots :
        /\ calls[c].pc = "cancelled" /\ calls[c].received # <<>>
        /\ calls[d].pc = "done"
        /\ calls[c].locals.conv_id = calls[d].locals.conv_id
        /\ Len(conversations[calls[c].locals.conv_id].messages) = 1

(* C6: every session holds one ChatTurn per chat call completed on it in
   this process and two history entries per ChatTurn, the user entry and
   then the assistant entry of that turn. *)
C6_OneTurnPerCompletedCall ==
    \A id \in DOMAIN conversations :
        LET s == conversations[id]
        IN  /\ Len(s.history) = 2 * Len(s.messages)
            /\ Len(s.messages) = Len(CompletedOf(id))
            /\ \A i \in DOMAIN s.messages :
                /\ s.history[2 * i - 1] = HumanMessage(s.messages[i].user_message)
                /\ s.history[2 * i] = AIMessage(s.messages[i].response)

\* a session on which both calls of the run completed
C6_Witness ==
    \E id \in DOMAIN conversations :
        /\ Len(conversations[id].messages) = 2
        /\ Len(conversations[id].history) = 4
        /\ \A c \in Slots : calls[c].pc = "done"

----------------------------------------------------------------------------
(* C7: when two calls on one conversation id are in flight together (each
   built its prompt before the other appended) and both complete, the session
   holds their two turns in the order of completion, its history is the
   (user, assistant) pairs of those turns in that order, and the record
   written by the last save holds both turns. *)
C7_ConcurrentAppendsKept ==
    \A c, d \in Slots :
        ( /\ c # d
          /\ calls[c].pc = "done" /\ calls[d].pc = "done"
          /\ calls[c].locals.conv_id = calls[d].locals.conv_id
          /\ Len(calls[c].locals.messages) = 2 /\ Len(calls[d].locals.messages) = 2 )
        => LET id == calls[c].locals.conv_id
               s == conversations[id]
           IN  /\ Len(s.messages) = 2
               /\ Len(s.history) = 4
               /\ \A i \in 1..2 :
                   /\ s.messages[i].user_message = CompletedOf(id)[i].user_message
                   /\ s.messages[i].response = CompletedOf(id)[i].response
                   /\ s.history[2 * i - 1] = HumanMessage(s.messages[i].user_message)
                   /\ s.history[2 * i] = AIMessage(s.messages[i].response)
               /\ ~ioFailed => RecordHoldsSession(id)

(* C8: once a call is done, the record of its conversation can be read back
   at the next start of the process, and the session read back holds the
   turn of that call in its messages and its history. *)
C8_DoneTurnSurvivesRestart ==
    \A c \in Slots :
        (calls[c].pc = "done" /\ ~ioFailed) =>
            LET id == calls[c].locals.conv_id
            IN  /\ Loadable(id)
                /\ Occurrences(TurnOf(c), Reloaded(id).messages) >= 1
                /\ Len(Reloaded(id).history) >= 2

(* C9: saving any session of the store and loading the records again gives
   a session under the same id with the same history and the same messages. *)
C9_SaveLoadRoundTrip ==
    \A id \in DOMAIN conversations :
        LET saved == _save_conversation(conversations, << >>, id, "ok")
            loaded == _load_conversations(saved)
        IN  /\ id \in DOMAIN loaded
            /\ loaded[id].history = conversations[id].history
            /\ loaded[id].messages = conversations[id].messages

----------------------------------------------------------------------------
(* _get_or_create_conversation on the store as it is *)

Resolve(conversation_id, io) ==
    _get_or_create_conversation(conversations, disk, conversation_id,
                                uuid4(nextUuid + 1), "ok", io)

\* the same request again, on what the first left
ResolveAgain(conversation_id, io) ==
    LET r == Resolve(conversation_id, io)
    IN  _get_or_create_conversation(r.conversations, r.disk, conversation_id,
                                    uuid4(nextUuid + (IF r.drew THEN 2 ELSE 1)), "ok", io)

\* r added an empty session under id and changed no other session
CreatedUnder(r, id) ==
    /\ ~r.raised
    /\ r.id = id
    /\ id \notin DOMAIN conversations
    /\ DOMAIN r.conversations = DOMAIN conversations \cup {id}
    /\ \A k \in DOMAIN conversations : r.conversations[k] = conversations[k]
    /\ r.conversations[id].id = id
    /\ r.conversations[id].history = <<>>
    /\ r.conversations[id].messages = <<>>

\* r wrote the record of the empty session id and touched no other record
SavedUnder(r, id) ==
    /\ DOMAIN r.disk = DOMAIN disk \cup {FileName(id)}
    /\ \A fn \in DOMAIN disk \ {FileName(id)} : r.disk[fn] = disk[fn]
    /\ EmptyRecord(r.disk[FileName(id)])
    /\ json_load(r.disk[FileName(id)]).id = id

\* r returned the existing session id and changed nothing
Returned(r, id) ==
    /\ ~r.raised
    /\ r.id = id
    /\ r.conversations = conversations
    /\ r.disk = disk

(* C10 as stated: a known id returns the existing session and changes
   nothing, twice alike; an id that is supplied (anything but None) and
   unknown creates an empty session under exactly that id; no id creates one
   under a fresh id, another one on the second call; whatever is created is
   saved at once. *)
C10_GetOrCreate ==
    \A conversation_id \in ConversationIdInputs :
        LET r == Resolve(conversation_id, "ok")
            again == ResolveAgain(conversation_id, "ok")
        IN  IF conversation_id \in DOMAIN conversations
            THEN /\ Returned(r, conversation_id)
                 /\ again.id = r.id
                 /\ again.conversations[again.id].history = r.conversations[r.id].history
            ELSE IF conversation_id # None
            THEN CreatedUnder(r, conversation_id) /\ SavedUnder(r, conversation_id)
            ELSE /\ CreatedUnder(r, r.id) /\ SavedUnder(r, r.id)
                 /\ again.id # r.id
                 /\ again.id \notin DOMAIN r.conversations

(* C10 amended: as above, but the empty string counts as no id: only a
   non-empty unknown id is taken as the new session's id, while None and ""
   both give a fresh id (a different one on each call); and the record of a
   new session is written at once unless that write raises, in which case
   the session is created all the same and no record is touched. *)
C10_GetOrCreateAmended ==
    \A conversation_id \in ConversationIdInputs, io \in {"ok", "fail"} :
        LET r == Resolve(conversation_id, io)
            again == ResolveAgain(conversation_id, io)
        IN  /\ IF conversation_id \in DOMAIN conversations
               THEN /\ Returned(r, conversation_id)
                    /\ again.id = r.id
                    /\ again.conversations[again.id].history = r.conversations[r.id].history
               ELSE IF conversation_id \notin {None, ""}
               THEN CreatedUnder(r, conversation_id)
               ELSE /\ CreatedUnder(r, r.id)
                    /\ r.id \notin ClientIds \cup LearntIds \cup {None}
                    /\ again.id # r.id
                    /\ again.id \notin DOMAIN r.conversations
            /\ conversation_id \notin DOMAIN conversations =>
                   IF io = "ok" THEN SavedUnder(r, r.id) ELSE r.disk = disk

\* the store holds a session created under a supplied id, with a completed
\* turn, and one created under a generated id
C10_Witness ==
    /\ "c1" \in DOMAIN conversations
    /\ "u1" \in DOMAIN conversations
    /\ conversations["c1"].history # <<>>
    /\ Loadable("u1")

----------------------------------------------------------------------------
(* C11: all events of a call carry one conversation id, the id of the
   session the call resolved. A call given no id that creates its session
   draws a new id, unknown to every client and record, creates exactly that
   session, and carries that id from its first event on. A call given the id
   of a session of the store creates no session and changes no record. And
   the prompt a call builds holds, for every call completed on its session in
   this process, the user message followed by the assistant response. *)
C11_NewIdInEveryEvent ==
    [][ \A c \in Slots :
          LET e == calls'[c].events
              l == calls'[c].locals
              started == calls[c].pc = "idle" /\ calls'[c].pc # "idle"
          IN  /\ \A i, j \in DOMAIN e : e[i].conversation_id = e[j].conversation_id
              /\ ("conv_id" \in DOMAIN l /\ e # <<>>) => e[1].conversation_id = l.conv_id
              /\ ( /\ started
                   /\ nextUuid' = nextUuid + 1
                   /\ DOMAIN conversations' # DOMAIN conversations ) =>
                     LET id == e[1].conversation_id
                     IN  /\ id \notin LearntIds \cup ClientIds \cup {None}
                         /\ DOMAIN conversations' = DOMAIN conversations \cup {id}
                         /\ conversations'[id].id = id
              /\ (started /\ "conv_id" \in DOMAIN l /\ l.conv_id \in DOMAIN conversations) =>
                     conversations' = conversations /\ disk' = disk
              /\ (calls[c].pc = "thinking" /\ calls'[c].pc = "streaming") =>
                     LET p == l.messages
                         done == CompletedOf(l.conv_id)
                     IN  \A k \in DOMAIN done :
                             \E j \in 3..(Len(p) - 1) :
                                 /\ p[j] = HumanMessage(done[k].user_message)
                                 /\ p[j + 1] = AIMessage(done[k].response)
      ]_vars

\* a call given no id completed on the session it created, and a later call
\* given that id is generating from a prompt that holds the exchange
C11_Witness ==
    \E c, d \in Slots :
        /\ calls[c].pc = "done" /\ calls[d].pc = "streaming"
        /\ calls[c].events[1].conversation_id = uuid4(1)
        /\ calls[d].events[1].conversation_id = uuid4(1)
        /\ DOMAIN conversations = {uuid4(1)}
        /\ nextUuid = 1
        /\ Len(calls[d].locals.messages) = 4
        /\ calls[d].locals.messages[3] = HumanMessage(calls[c].locals.message)
        /\ calls[d].locals.messages[4] = AIMessage(calls[c].locals.full_response)

----------------------------------------------------------------------------
(* One client in one conversation, a request after the other: the task slot
   takes the next request when the call before it is done. *)

\* the chat endpoint is called again
NextRequest(c) ==
    /\ calls[c].pc = "done"
    /\ Len(CompletedOf(calls[c].locals.conv_id)) <= MaxTurns
    /\ calls' = [calls EXCEPT ![c] = IdleCall]
    /\ UNCHANGED <<conversations, disk, index, completed, nextUuid, ioFailed, restarts>>
    /\ UNCHANGED docVars
    /\ UNCHANGED exportVars

NextSeq ==
    \/ \E message \in Messages : Start(1, message, "c1", "none", "ok")
    \/ BeginGeneration(1)
    \/ \E chunk \in Chunks : Chunk(1, chunk)
    \/ Finish(1, "ok")
    \/ NextRequest(1)

SpecSeq == Init /\ [][NextSeq]_vars

(* C12: the prompt of a call is the system instruction, then one user turn
   with the texts of the retrieved chunks joined by newlines followed by the
   query, then the last min(4, len(history)) entries of the session's
   history in their order: never more than 4, and none when the history is
   empty. (While the only call in flight is generating, the history is still
   what it was when the prompt was built.) *)
C12_PromptWindow ==
    calls[1].pc = "streaming" =>
        LET l == calls[1].locals
            p == l.messages
            h == conversations[l.conv_id].history
            n == IF Len(h) < 4 THEN Len(h) ELSE 4
            docs == l.docs
            texts == Concat([i \in DOMAIN docs |->
                                IF i < Len(docs) THEN docs[i].page_content \o <<"\n">>
                                ELSE docs[i].page_content])
        IN  /\ Len(p) = 2 + n
            /\ Len(p) <= 6
            /\ p[1] = SYSTEM_MESSAGE
            /\ p[2] = HumanMessage(<<"Context: ">> \o texts \o <<"\n\nQuestion: ">> \o <<l.message>>)
            /\ \A i \in 1..n : p[2 + i] = h[Len(h) - n + i]
            /\ h = <<>> => Len(p) = 2

\* the fourth call of a conversation generates from a prompt with the last
\* two of the three exchanges before it
C12_Witness ==
    /\ calls[1].pc = "streaming"
    /\ Len(conversations["c1"].history) = 6
    /\ Len(calls[1].locals.messages) = 6
    /\ calls[1].locals.messages[3] = conversations["c1"].history[3]
    /\ calls[1].locals.messages[6] = conversations["c1"].history[6]
    /\ conversations["c1"].history[1] # conversations["c1"].history[3]

----------------------------------------------------------------------------
(* C13: a call that got past retrieval has emitted the THINKING placeholder
   exactly once, as its first event; as long as that is its only event, the
   prompt has not been built and no increment has been asked of the
   generation capability; and a call that did not get past retrieval has
   emitted no placeholder. *)
C13_OneThinkingFirst ==
    \A c \in Slots :
        LET e == calls[c].events
            thinking == { i \in DOMAIN e : e[i].response = THINKING_RESPONSE }
        IN  /\ PastRetrieval(c) => thinking = {1}
            /\ ~PastRetrieval(c) => thinking = {}
            /\ calls[c].pc = "thinking" =>
                   /\ Len(e) = 1
                   /\ calls[c].asked = 0
                   /\ "messages" \notin DOMAIN calls[c].locals
                   /\ "full_response" \notin DOMAIN calls[c].locals
            /\ (calls[c].asked > 0 \/ "messages" \in DOMAIN calls[c].locals) =>
                   PastRetrieval(c) /\ 1 \in thinking

\* one call has emitted its placeholder and nothing else, the other went on
\* to stream two events after its placeholder and completed
C13_Witness ==
    \E c, d \in Slots :
        /\ calls[c].pc = "thinking" /\ Len(calls[c].events) = 1
        /\ calls[c].events[1].response = THINKING_RESPONSE
        /\ calls[d].pc = "done" /\ Len(calls[d].events) = 3
        /\ calls[d].events[1].response = THINKING_RESPONSE

----------------------------------------------------------------------------
(* The sources of a call *)

\* the sources of call c are one per chunk of the collection's ranking for
\* its query, the first three at most, in that order, each with the chunk's
\* document name and page number and with `suffix` after the first 200
\* characters of its text; all events of the call carry them, and so does
\* the ChatTurn appended when the call is done
SourcesFixed(c, suffix) ==
    LET e == calls[c].events
        l == calls[c].locals
        ranked == Ranked(index, l.message)
        n == IF Len(ranked) < 3 THEN Len(ranked) ELSE 3
        src == e[1].sources
    IN  /\ Len(src) = n
        /\ \A i \in 1..n :
               /\ src[i].document_name = ranked[i].metadata.document_name
               /\ src[i].page_number = ranked[i].metadata.page_number
               /\ src[i].content_snippet =
                      SubSeq(ranked[i].page_content, 1,
                             IF Len(ranked[i].page_content) < 200
                             THEN Len(ranked[i].page_content) ELSE 200) \o suffix
        /\ \A k \in DOMAIN e : e[k].sources = src
        /\ calls[c].pc = "done" =>
               \E t \in DOMAIN conversations[l.conv_id].messages :
                   LET turn == conversations[l.conv_id].messages[t]
                   IN  /\ turn.user_message = l.message
                       /\ turn.response = l.full_response
                       /\ Len(turn.sources) = n
                       /\ \A i \in 1..n : Fields(turn.sources[i]) = src[i]

(* C14 as stated: the snippet of a source is the 200-character prefix of
   the chunk's text. *)
C14_SourcesFixed ==
    \A c \in Slots : PastRetrieval(c) => SourcesFixed(c, <<>>)

(* C14 amended: the sources of a call are fixed before its THINKING event,
   one per retrieved chunk in retrieval order, three at most, each with the
   chunk's stored document name and page number; the snippet is the first
   200 characters of the chunk's text (all of it when it is shorter)
   followed by "..."; every event of the call and the ChatTurn appended at
   DONE carry the same sources. *)
C14_SourcesFixedAmended ==
    \A c \in Slots : PastRetrieval(c) => SourcesFixed(c, <<"...">>)

\* a completed call whose first source is cut from a text longer than 200
\* characters, with three sources out of a collection of four chunks
C14_Witness ==
    \E c \in Slots :
        /\ calls[c].pc = "done"
        /\ Len(calls[c].events) = 3
        /\ Len(index) = 4
        /\ Len(calls[c].events[1].sources) = 3
        /\ Len(index[1].page_content) > 200
        /\ Len(calls[c].events[3].sources[1].content_snippet) = 201

----------------------------------------------------------------------------
(* Calls whose consumer reads the stream to its end, in a process that stays
   up: every step but Cancel and Restart. The consumer resumes the generator
   after each event and the sleep at line 132 ends, so a call at its
   placeholder goes on; the generation capability yields finitely many
   increments and then completes or fails, so a call that is streaming comes
   to the end of its stream. *)
NextServed ==
    \/ \E c \in Slots, message \in Messages, conversation_id \in ConversationIdInputs,
          fault \in {"none", "chroma", "search"}, io \in {"ok", "fail"} :
            Start(c, message, conversation_id, fault, io)
    \/ \E c \in Slots : BeginGeneration(c)
    \/ \E c \in Slots, chunk \in Chunks : Chunk(c, chunk)
    \/ \E c \in Slots, io \in {"ok", "fail"} : Finish(c, io)
    \/ \E c \in Slots : Fail(c)

FairServed ==
    /\ Init
    /\ [][NextServed]_vars
    /\ \A c \in Slots : WF_vars(BeginGeneration(c) \/ Fail(c))
    /\ \A c \in Slots : WF_vars((\E io \in {"ok", "fail"} : Finish(c, io)) \/ Fail(c))

(* C15: every call that was started ends, done or failed, whatever fails in
   it; a call that failed has the apology as its last event, in the stream
   and not as an exception. *)
C15_CallsTerminate ==
    \A c \in Slots :
        (calls[c].pc # "idle") ~>
            ( /\ calls[c].pc \in {"done", "error"}
              /\ calls[c].pc = "error" =>
                     /\ calls[c].events # <<>>
                     /\ calls[c].events[Len(calls[c].events)].response = ERROR_RESPONSE )

\* both calls have ended: one failed at retrieval, with the error event as
\* its only event, the other completed after two increments
C15_Witness ==
    \E c, d \in Slots :
        /\ calls[c].pc = "error" /\ Len(calls[c].events) = 1
        /\ calls[d].pc = "done" /\ Len(calls[d].events) = 3

----------------------------------------------------------------------------
(* C16: the step that appends a call's turn to its session ends the call in
   DONE and emits no event, whether the record is written or the write
   raises and leaves the records as they were; get_conversation_history then
   returns the session's turns with the new turn last. And a step that
   creates a session lets the call go on with that session, whether its
   record is written or not. *)
C16_WriteFailureKeepsTurn ==
    [][ \A c \in Slots :
          LET l == calls'[c].locals
          IN  /\ ( /\ calls[c].pc = "streaming" /\ calls'[c].pc \notin {calls[c].pc, "killed"}
                   /\ conversations' # conversations ) =>
                     /\ calls'[c].pc = "done"
                     /\ calls'[c].events = calls[c].events
                     /\ calls'[c].events[Len(calls'[c].events)].response # ERROR_RESPONSE
                     /\ LET before == get_conversation_history(conversations, l.conv_id).result
                            after == get_conversation_history(conversations', l.conv_id).result
                        IN  /\ Len(after) = Len(before) + 1
                            /\ SubSeq(after, 1, Len(before)) = before
                            /\ after[Len(after)] =
                                   ChatResponse(l.full_response, l.sources, l.conv_id, l.message)
                     /\ disk' = disk \/ DOMAIN disk' = DOMAIN disk \cup {FileName(l.conv_id)}
              /\ ( /\ calls[c].pc = "idle" /\ calls'[c].pc \notin {calls[c].pc, "killed"}
                   /\ conversations' # conversations ) =>
                     /\ "conv_id" \in DOMAIN l
                     /\ l.conv_id \in DOMAIN conversations'
                     /\ get_conversation_history(conversations', l.conv_id).result = <<>>
                     /\ disk' = disk \/ DOMAIN disk' = DOMAIN disk \cup {FileName(l.conv_id)}
      ]_vars

\* a call is done and its turn is in its session although no write for that
\* session ever succeeded: it has no record
C16_Witness ==
    \E c \in Slots :
        /\ calls[c].pc = "done"
        /\ ioFailed
        /\ FileName(calls[c].locals.conv_id) \notin DOMAIN disk
        /\ Len(get_conversation_history(conversations, calls[c].locals.conv_id).result) = 1
        /\ calls[c].events[Len(calls[c].events)].response # ERROR_RESPONSE

----------------------------------------------------------------------------
(* C17: after a start of the process, before any call of the new process,
   the store holds a session for every record that parses, under the
   record's id and with as many history entries and turns as the record, and
   holds no session for a record that does not parse, nor any other
   session. *)
C17_CorruptRecordSkipped ==
    (restarts >= 1 /\ \A c \in Slots : calls[c].pc \in {"idle", "killed"}) =>
        /\ \A fn \in DOMAIN disk :
               IF disk[fn].complete
               THEN /\ fn[1] \in DOMAIN conversations
                    /\ conversations[fn[1]].id = disk[fn].id
                    /\ Len(conversations[fn[1]].history) = Len(disk[fn].history)
                    /\ Len(conversations[fn[1]].messages) = Len(disk[fn].messages)
                    /\ conversations[fn[1]].vectorstore = CHROMA
               ELSE fn[1] \notin DOMAIN conversations
        /\ \A id \in DOMAIN conversations : <<id, ".json">> \in DOMAIN disk

\* the process started on two records, one cut short by a failed dump and
\* one whole: the store holds the session of the second only
C17_Witness ==
    /\ restarts = 1
    /\ \A c \in Slots : calls[c].pc = "killed"
    /\ \E fn, gn \in DOMAIN disk :
           /\ ~disk[fn].complete
           /\ disk[gn].complete
           /\ DOMAIN disk = {fn, gn}
           /\ DOMAIN conversations = {gn[1]}

----------------------------------------------------------------------------
(* C18: get_conversation_history leaves the store as it is; for an id that
   is not in the store it returns the empty sequence, and the id is still
   not in the store; for an id of the store it returns the session's
   messages, one per call completed on the session in this process, in the
   order of completion. *)
C18_HistoryReadOnly ==
    \A conversation_id \in ConversationIdInputs \cup {"c2"} :
        LET r == get_conversation_history(conversations, conversation_id)
        IN  /\ r.conversations = conversations
            /\ IF conversation_id \in DOMAIN conversations
               THEN /\ r.result = conversations[conversation_id].messages
                    /\ Len(r.result) = Len(CompletedOf(conversation_id))
                    /\ \A i \in DOMAIN r.result :
                           /\ r.result[i].user_message = CompletedOf(conversation_id)[i].user_message
                           /\ r.result[i].response = CompletedOf(conversation_id)[i].response
               ELSE /\ r.result = <<>>
                    /\ conversation_id \notin DOMAIN r.conversations

\* the store holds a session with two turns, which are returned in the
\* order they were completed in, and no session for the id "c1", for which
\* nothing is returned
C18_Witness ==
    /\ "c1" \notin DOMAIN conversations
    /\ get_conversation_history(conversations, "c1").result = <<>>
    /\ \E id \in DOMAIN conversations :
           LET result == get_conversation_history(conversations, id).result
           IN  /\ Len(result) = 2
               /\ result[1].user_message = "q2" /\ result[2].user_message = "q1"
               /\ CompletedOf(id)[1].user_message = "q2"

----------------------------------------------------------------------------
(* The catalog over the steps of an ingest *)

\* all chunks of the document of ingest i are in the collection after the step
Indexed(i) ==
    Cardinality({ k \in DOMAIN index' : index'[k].metadata.document_id = ingests[i].doc_id })
        = Len(ingests[i].chunks)

(* C19: a record enters the catalog in the step in which the text of its
   document is extracted, with status processed and embedding_status
   pending; a record changes only in its embedding_status, only from
   pending, to completed when all chunks of the document went into the
   collection and to failed when the indexing raised; no step removes a
   record; and a step that changes the catalog leaves the catalog file equal
   to it. *)
C19_CatalogLifecycle ==
    [][ /\ DOMAIN metadata \subseteq DOMAIN metadata'
        /\ \A id \in DOMAIN metadata' \ DOMAIN metadata :
               /\ metadata'[id].status = "processed"
               /\ metadata'[id].embedding_status = "pending"
               /\ \E i \in IngestSlots :
                      ingests[i].pc = "reading" /\ ingests[i].doc_id = id
        /\ \A id \in DOMAIN metadata :
               metadata'[id] # metadata[id] =>
                   \E i \in IngestSlots :
                       /\ ingests[i].doc_id = id
                       /\ metadata[id].embedding_status = "pending"
                       /\ metadata'[id] =
                              [metadata[id] EXCEPT !.embedding_status =
                                  IF Indexed(i) THEN "completed" ELSE "failed"]
        /\ metadata' # metadata =>
               metadataFile' = [exists |-> TRUE, data |-> MetadataDump(metadata')]
      ]_vars

(* C20: an ingest whose indexing failed is answered with a failure, and the
   catalog keeps the record of its document with status processed,
   embedding_status failed and an error that is set. *)
C20_FailedRecordHasError ==
    \A i \in IngestSlots :
        ( /\ ingests[i].pc = "raised"
          /\ ingests[i].doc_id \in DOMAIN metadata
          /\ metadata[ingests[i].doc_id].embedding_status = "failed" ) =>
            /\ ingests[i].status_code = 500
            /\ metadata[ingests[i].doc_id].status = "processed"
            /\ metadata[ingests[i].doc_id].error # None
            /\ metadata[ingests[i].doc_id].error # ""

----------------------------------------------------------------------------
(* Uploads that the endpoint is to reject *)

\* the file name ends in one of the four extensions, in whatever case
Supported(filename) ==
    /\ Len(filename) >= 2
    /\ filename[Len(filename)] \in {".pdf", ".PDF", ".docx", ".json", ".csv"}

(* C21: an upload whose file name has no extension, or an extension that is
   none of .pdf, .docx, .json, .csv (compared without regard to case), has
   failed as soon as it was taken up: it was given no document id, the
   upload directory holds no file of its name, the catalog no record of it
   and the collection no chunk of it. *)
C21_InvalidUploadRejected ==
    \A i \in IngestSlots :
        (ingests[i].pc # "idle" /\ ~Supported(ingests[i].filename)) =>
            /\ ingests[i].pc = "raised"
            /\ ingests[i].status_code \notin {0, 200}
            /\ ingests[i].doc_id = None
            /\ \A f \in uploads : SubSeq(f, 2, Len(f)) # ingests[i].filename
            /\ \A id \in DOMAIN metadata : metadata[id].filename # ingests[i].filename
            /\ \A k \in DOMAIN index : index[k].metadata.document_name # ingests[i].filename

\* an upload named n.txt was rejected while the upload of R.PDF went
\* through: the directory holds the file of the second besides the two of
\* earlier runs, and the catalog its record
C21_Witness ==
    \E i, j \in IngestSlots :
        /\ ingests[i].filename = <<"n", ".txt">> /\ ingests[i].pc = "raised"
        /\ ingests[j].filename = <<"R", ".PDF">> /\ ingests[j].pc = "returned"
        /\ Cardinality(uploads) = 3
        /\ Cardinality(DOMAIN metadata) = 3

----------------------------------------------------------------------------
(* C22: an export asked for a conversation that is not in the store or has
   no turn, or in a format that is neither txt nor pdf (in whatever case),
   fails, returns no file name and writes no file; an export in txt of a
   conversation with a turn or more succeeds and returns the name of a file
   that is in the export directory, with one entry per turn; no step removes
   a file from the export directory, so the file is there for every later
   download; a download succeeds when the file asked for is in the export
   directory and fails when it is not. *)
C22_ExportAndDownload ==
    [][ /\ \A f \in DOMAIN exportDir : f \in DOMAIN exportDir'
        /\ \A r \in RequestSlots :
              (requests[r].pc = "idle" /\ requests'[r].pc = "answered") =>
                  LET q == requests'[r]
                  IN  IF q.endpoint = "export"
                      THEN LET id == q.args.conversation_id
                               turns == IF id \in DOMAIN conversations
                                        THEN Len(conversations[id].messages) ELSE 0
                               txt == q.args.format \in {<<"txt">>, <<"TXT">>}
                               pdf == q.args.format = <<"pdf">>
                           IN  /\ (turns = 0 \/ ~(txt \/ pdf)) =>
                                      /\ q.status_code # 200
                                      /\ q.file_name = <<>>
                                      /\ exportDir' = exportDir
                               /\ (turns >= 1 /\ txt) =>
                                      /\ q.status_code = 200
                                      /\ q.file_name # <<>>
                                      /\ q.file_name \in DOMAIN exportDir'
                                      /\ Len(exportDir'[q.file_name]) = turns
                               /\ q.status_code = 200 <=> q.file_name # <<>>
                      ELSE /\ q.args.filename \in DOMAIN exportDir =>
                                  q.status_code = 200 /\ q.file_name = q.args.filename
                           /\ q.args.filename \notin DOMAIN exportDir =>
                                  q.status_code # 200 /\ q.file_name = <<>>
                           /\ exportDir' = exportDir
      ]_vars

\* a conversation with one turn was exported in txt and the file named in
\* the answer was then downloaded
C22_Witness ==
    /\ requests[1].pc = "answered" /\ requests[1].endpoint = "export"
    /\ requests[1].args.format = <<"txt">>
    /\ requests[1].status_code = 200
    /\ requests[2].pc = "answered" /\ requests[2].endpoint = "download"
    /\ requests[2].args.filename = requests[1].file_name
    /\ requests[2].status_code = 200
    /\ Len(conversations[requests[1].args.conversation_id].messages) = 1

----------------------------------------------------------------------------
(* C23: the caller of an endpoint receives the failure that its handler
   raised: a request answered after its handler raised an HTTPException has
   the status of that exception, so that the export of a conversation that
   is unknown or empty and the download of a file that is not there are
   answered with 404, and an upload whose extension is missing or not
   supported with 400. *)
C23_FailureKindReachesCaller ==
    /\ \A r \in RequestSlots :
          (requests[r].pc = "answered" /\ requests[r].raised.cls = "HTTPException") =>
              /\ requests[r].raised.status_code = 404
              /\ requests[r].status_code = 404
    /\ \A i \in IngestSlots :
          (ingests[i].pc = "raised" /\ ~Supported(ingests[i].filename)) =>
              ingests[i].status_code = 400

----------------------------------------------------------------------------
(* C24: saving a session changes nothing of it in the store, whether the
   write succeeded or failed: whatever was saved so far, every session in
   the store holds its four keys, the handle on the collection, a history
   of message objects, two for each turn, and in messages the ChatResponse
   objects of the turns completed since the process started, in order. *)
C24_SaveLeavesSession ==
    \A id \in DOMAIN conversations :
        LET session == conversations[id]
        IN  /\ DOMAIN session = {"id", "vectorstore", "history", "messages"}
            /\ session.vectorstore = CHROMA
            /\ \A i \in DOMAIN session.messages :
                  /\ ~IsDict(session.messages[i])
                  /\ session.messages[i].cls = "ChatResponse"
                  /\ \A j \in DOMAIN session.messages[i].sources :
                        ~IsDict(session.messages[i].sources[j])
            /\ \A i \in DOMAIN session.history : ~IsDict(session.history[i])
            /\ Len(session.history) = 2 * Len(session.messages)
            /\ [i \in DOMAIN session.messages |->
                    [user_message |-> session.messages[i].user_message,
                     response |-> session.messages[i].response]] = CompletedOf(id)

\* a session was saved when it was created and again after its first turn,
\* one of the writes failed, and a chat call issued afterwards is streaming
\* on that session
C24_Witness ==
    \E c \in Slots :
        /\ calls[c].pc = "streaming"
        /\ ioFailed
        /\ calls[c].locals.conv_id \in DOMAIN conversations
        /\ FileName(calls[c].locals.conv_id) \in DOMAIN disk
        /\ Len(conversations[calls[c].locals.conv_id].messages) = 1
        /\ \A b \in Slots \ {c} : calls[b].pc = "done"

====
